---- MODULE Spec2Model ----
(***************************************************************************)
(* Binary-options backtester: contract settlement and progressive          *)
(* anti-martingale sizing.                                                 *)
(*                                                                         *)
(* Objects modelled (one record-valued variable per object):               *)
(*   tm  BinaryTradeManager        core/binary_trade_manager.py            *)
(*   bs  BaseBinaryStrategy        strategies/base_strategy.py             *)
(*   mr  MeanReversionStrategy     strategies/mean_reversion_strategy.py   *)
(*   v4  MeanReversionStrategyV4   strategies/mean_reversion_strategy_v4.py*)
(*   ms  MartingaleSizer           sizers/martingale_sizer.py              *)
(*   am  AntiMartingaleSizer       sizers/martingale_sizer.py              *)
(*   fx  FixedSizer                sizers/fixed_sizer.py                   *)
(*   rh  ReversalHunterBalancedStrategy                                    *)
(*                                 strategies/reversal_hunter_talib.py     *)
(*                                                                         *)
(* Units.  Time is in whole minutes.  Money is in pips of 1/10000 of a     *)
(* currency unit, so that a stake rounded to cents times a payout given in *)
(* percent is an integer; the floats of the source are read as exact       *)
(* rationals.  Payout rates are in percent, stake fractions in per mille.  *)
(* Optional values (None in the source) are <<>>, a value x is <<x>>.      *)
(***************************************************************************)
EXTENDS Integers, Sequences, FiniteSets, TLC

\* ------------------------------------------------------------- bounds
MaxCandles == 3      \* calls of next() (or of the manager's operations) in a run
MaxContracts == 2    \* contracts a BinaryTradeManager run creates
MaxTrades == 5       \* trades notified to a MartingaleSizer or AntiMartingaleSizer

\* ---------------------------------------------------------- constants
PipsPerCent == 100
InitialCash == 10000000        \* 1000.00 currency units, in pips

None == <<>>
Some(x) == <<x>>
IsNone(o) == o = <<>>
Val(o) == o[1]

\* Close prices.  Settlement only compares two prices, and two levels give
\* all three orders of an entry and an exit price.
Prices == {1, 2}
\* Timestamp steps between two candles, in minutes: a repeated timestamp,
\* the next minute, a missing candle.
Gaps == {0, 1, 2}

RECURSIVE SumProfit(_)
SumProfit(s) == IF s = <<>> THEN 0 ELSE Val(Head(s).profit) + SumProfit(Tail(s))

VARIABLES
    comp,      \* which object this run drives: "tm", "bs", "mr", "sizer", "v4",
               \* "martingale", "antimartingale", "fixed", "rh"
    now,       \* timestamp of the current candle (the caller's clock for tm)
    candles,   \* operations driven so far
    call,      \* the last operation invoked, with its arguments
    ret,       \* what the last operation returned or raised
    tm,        \* BinaryTradeManager
    bs,        \* BaseBinaryStrategy and its broker cash
    mr,        \* MeanReversionStrategy and its broker cash
    v4,        \* MeanReversionStrategyV4 sizer state
    ms,        \* MartingaleSizer
    am,        \* AntiMartingaleSizer
    fx,        \* FixedSizer
    rh         \* ReversalHunterBalancedStrategy and its broker cash

vars == <<comp, now, candles, call, ret, tm, bs, mr, v4, ms, am, fx, rh>>

NoCall == [op |-> "none"]

\* =====================================================================
\* BinaryTradeManager
\* =====================================================================
\* The default, the rate the strategies use, and a negative rate.
TMPayoutRates == {80, 95, -80}
TMDirections == {"CALL", "PUT", "OTHER"}
TMStakes == {100000}
TMExpiries == {1, 2}

TMNew(payout_rate) ==
    [payout_rate |-> payout_rate,
     contracts |-> <<>>,
     completed_contracts |-> <<>>,
     contract_counter |-> 0]

CreateContract(s, direction, entry_price, entry_time, expiration_time, stake) ==
    LET contract == [id |-> s.contract_counter,
                     direction |-> direction,
                     entry_price |-> entry_price,
                     entry_time |-> entry_time,
                     expiration_time |-> expiration_time,
                     stake |-> stake,
                     payout_rate |-> s.payout_rate,
                     status |-> "open",
                     result_price |-> None,
                     profit |-> None]
    IN [s EXCEPT !.contract_counter = @ + 1,
                 !.contracts = Append(@, contract)]

\* _check_contract_result raises ValueError for a direction that is neither
\* CALL nor PUT; otherwise it returns the strict comparison.
CheckContractResultRaises(contract) == contract.direction \notin {"CALL", "PUT"}

CheckContractResult(contract, current_price) ==
    IF contract.direction = "CALL"
    THEN current_price > contract.entry_price
    ELSE current_price < contract.entry_price

TMHas(s, contract_id) == \E i \in 1..Len(s.contracts) : s.contracts[i].id = contract_id
TMGet(s, contract_id) ==
    s.contracts[CHOOSE i \in 1..Len(s.contracts) : s.contracts[i].id = contract_id]
TMDel(s, contract_id) ==
    LET Keep(c) == c.id # contract_id IN SelectSeq(s.contracts, Keep)

\* Fault variant of evaluate_contract: a contract whose direction is not
\* recognised is booked as lost before the error is raised.
EvaluateContractBooksError(s, contract_id, current_price) ==
    IF ~TMHas(s, contract_id) THEN [state |-> s, ret |-> "None"]
    ELSE LET contract == TMGet(s, contract_id) IN
         IF contract.status # "open" THEN [state |-> s, ret |-> "None"]
         ELSE IF CheckContractResultRaises(contract)
         THEN [state |-> [s EXCEPT
                             !.completed_contracts =
                                 Append(@, [contract EXCEPT
                                               !.status = "lost",
                                               !.result_price = Some(current_price),
                                               !.profit = Some(-contract.stake)]),
                             !.contracts = TMDel(s, contract_id)],
               ret |-> "ValueError"]
         ELSE LET won == CheckContractResult(contract, current_price)
                  profit == IF won
                            THEN (contract.stake * contract.payout_rate) \div 100
                            ELSE -contract.stake
                  settled == [contract EXCEPT
                                 !.status = IF won THEN "won" ELSE "lost",
                                 !.result_price = Some(current_price),
                                 !.profit = Some(profit)]
              IN [state |-> [s EXCEPT
                                !.completed_contracts = Append(@, settled),
                                !.contracts = TMDel(s, contract_id)],
                  ret |-> "contract"]

\* evaluate_contract: the new manager state and what the call returns.
EvaluateContract(s, contract_id, current_price) ==
    IF ~TMHas(s, contract_id) THEN [state |-> s, ret |-> "None"]
    ELSE LET contract == TMGet(s, contract_id) IN
         IF contract.status # "open" THEN [state |-> s, ret |-> "None"]
         ELSE IF CheckContractResultRaises(contract)
         THEN [state |-> s, ret |-> "ValueError"]
         ELSE LET won == CheckContractResult(contract, current_price)
                  profit == IF won
                            THEN (contract.stake * contract.payout_rate) \div 100
                            ELSE -contract.stake
                  settled == [contract EXCEPT
                                 !.status = IF won THEN "won" ELSE "lost",
                                 !.result_price = Some(current_price),
                                 !.profit = Some(profit)]
              IN [state |-> [s EXCEPT
                                !.completed_contracts = Append(@, settled),
                                !.contracts = TMDel(s, contract_id)],
                  ret |-> "contract"]

GetTotalProfit(s) == SumProfit(s.completed_contracts)

\* ------------------------------------------------------- tm actions
TMCreate ==
    /\ comp = "tm"
    /\ candles < MaxCandles
    /\ tm.contract_counter < MaxContracts
    /\ \E d \in TMDirections, p \in Prices, e \in TMExpiries, st \in TMStakes :
          /\ tm' = CreateContract(tm, d, p, now, now + e, st)
          /\ call' = [op |-> "create_contract", contract_id |-> tm.contract_counter,
                      price |-> p]
    /\ ret' = "contract"
    /\ candles' = candles + 1
    /\ UNCHANGED <<comp, now, bs, mr, v4, ms, am, fx, rh>>

TMEvaluate ==
    /\ comp = "tm"
    /\ candles < MaxCandles
    /\ \E id \in 0..MaxContracts, p \in Prices :
          LET r == EvaluateContract(tm, id, p) IN
          /\ tm' = r.state
          /\ ret' = r.ret
          /\ call' = [op |-> "evaluate_contract", contract_id |-> id, price |-> p]
    /\ candles' = candles + 1
    /\ UNCHANGED <<comp, now, bs, mr, v4, ms, am, fx, rh>>

\* The caller's clock moves on between two calls on the manager.
TMTick ==
    /\ comp = "tm"
    /\ candles < MaxCandles
    /\ \E dt \in Gaps \ {0} : now' = now + dt
    /\ call' = [op |-> "clock"]
    /\ candles' = candles + 1
    /\ UNCHANGED <<comp, ret, tm, bs, mr, v4, ms, am, fx, rh>>

\* =====================================================================
\* BaseBinaryStrategy (with the broker's cash)
\* =====================================================================
BSExpirationTimes == {1, 2}
BSSignals == {None, Some("CALL"), Some("PUT")}
SecondsPerMinute == 60

BSNew(expiration_time) ==
    [params |-> [expiration_time |-> expiration_time,
                 stake_amount |-> 100000,
                 payout_rate |-> 80],
     binary_contracts |-> <<>>,
     contract_counter |-> 0,
     last_signal_time |-> None,
     cooldown_seconds |-> 60,
     total_trades |-> 0,
     won_trades |-> 0,
     lost_trades |-> 0,
     total_profit |-> 0,
     cash |-> InitialCash,
     crashed |-> FALSE,      \* a ValueError left next() and ended the run
     log |-> <<>>]           \* one entry per "Contract ...: WON/LOST" line

ExecuteBinaryTrade(s, direction, current_time, current_price) ==
    LET contract == [id |-> s.contract_counter,
                     direction |-> direction,
                     entry_price |-> current_price,
                     entry_time |-> current_time,
                     expiration_time |-> current_time + s.params.expiration_time,
                     stake |-> s.params.stake_amount,
                     payout_rate |-> s.params.payout_rate,
                     status |-> "open"]
    IN [s EXCEPT !.contract_counter = @ + 1,
                 !.binary_contracts = Append(@, contract),
                 !.last_signal_time = Some(current_time),
                 !.total_trades = @ + 1]

EvaluateContractRaises(contract) == contract.direction \notin {"CALL", "PUT"}

\* The 'won' entry of the dict _evaluate_contract returns.
EvaluateContractWon(contract, current_price) ==
    IF contract.direction = "CALL"
    THEN current_price > contract.entry_price
    ELSE current_price < contract.entry_price

BSExpired(contract, current_time) ==
    contract.status = "open" /\ current_time >= contract.expiration_time

\* Fault variant of the loop body of _check_expired_contracts: a lost
\* contract is not counted in lost_trades.
BSSettleOneLossUncounted(s, contract, current_time, current_price) ==
    LET won == EvaluateContractWon(contract, current_price)
        profit == IF won
                  THEN (contract.stake * contract.payout_rate) \div 100
                  ELSE -contract.stake
        line == [id |-> contract.id,
                 won |-> won,
                 profit |-> profit,
                 direction |-> contract.direction,
                 entry_price |-> contract.entry_price,
                 exit_price |-> current_price,
                 entry_time |-> contract.entry_time,
                 expiration_time |-> contract.expiration_time,
                 stake |-> contract.stake,
                 payout_rate |-> contract.payout_rate,
                 time |-> current_time]
    IN [s EXCEPT !.won_trades = IF won THEN @ + 1 ELSE @,
                 !.lost_trades = @,
                 !.total_profit = @ + profit,
                 !.cash = @ + profit,
                 !.log = Append(@, line)]

\* The loop body of _check_expired_contracts for one expired contract.
BSSettleOne(s, contract, current_time, current_price) ==
    LET won == EvaluateContractWon(contract, current_price)
        profit == IF won
                  THEN (contract.stake * contract.payout_rate) \div 100
                  ELSE -contract.stake
        line == [id |-> contract.id,
                 won |-> won,
                 profit |-> profit,
                 direction |-> contract.direction,
                 entry_price |-> contract.entry_price,
                 exit_price |-> current_price,
                 entry_time |-> contract.entry_time,
                 expiration_time |-> contract.expiration_time,
                 stake |-> contract.stake,
                 payout_rate |-> contract.payout_rate,
                 time |-> current_time]
    IN [s EXCEPT !.won_trades = IF won THEN @ + 1 ELSE @,
                 !.lost_trades = IF won THEN @ ELSE @ + 1,
                 !.total_profit = @ + profit,
                 !.cash = @ + profit,
                 !.log = Append(@, line)]

BSDeleteExpired(s, expired_contracts) ==
    LET Keep(c) == c.id \notin expired_contracts
    IN [s EXCEPT !.binary_contracts = SelectSeq(@, Keep)]

\* _check_expired_contracts: the loop over the dict in insertion order from
\* position i on, with the ids collected so far, then the deletions.  A
\* ValueError leaves the loop and the method before anything is deleted.
RECURSIVE BSCheckFrom(_, _, _, _, _)
BSCheckFrom(s, i, expired_contracts, current_time, current_price) ==
    IF i > Len(s.binary_contracts)
    THEN BSDeleteExpired(s, expired_contracts)
    ELSE LET contract == s.binary_contracts[i] IN
         IF ~BSExpired(contract, current_time)
         THEN BSCheckFrom(s, i + 1, expired_contracts, current_time, current_price)
         ELSE IF EvaluateContractRaises(contract)
         THEN [s EXCEPT !.crashed = TRUE]
         ELSE BSCheckFrom(BSSettleOne(s, contract, current_time, current_price),
                          i + 1, expired_contracts \cup {contract.id},
                          current_time, current_price)

CheckExpiredContracts(s, current_time, current_price) ==
    BSCheckFrom(s, 1, {}, current_time, current_price)

IsInCooldown(s, current_time) ==
    IF IsNone(s.last_signal_time) THEN FALSE
    ELSE (current_time - Val(s.last_signal_time)) * SecondsPerMinute < s.cooldown_seconds

\* next(): settle, then the cooldown gate, then the signal.
BSNextResult(s, current_time, current_price, signal) ==
    LET s1 == CheckExpiredContracts(s, current_time, current_price) IN
    IF s1.crashed THEN s1
    ELSE IF IsInCooldown(s1, current_time) THEN s1
    ELSE IF ~IsNone(signal)
         THEN ExecuteBinaryTrade(s1, Val(signal), current_time, current_price)
         ELSE s1

BSNext ==
    /\ comp = "bs"
    /\ candles < MaxCandles
    /\ ~bs.crashed
    /\ \E dt \in Gaps, p \in Prices, sig \in BSSignals :
          /\ now' = now + dt
          /\ bs' = BSNextResult(bs, now + dt, p, sig)
    /\ call' = [op |-> "next"]
    /\ ret' = "None"
    /\ candles' = candles + 1
    /\ UNCHANGED <<comp, tm, mr, v4, ms, am, fx, rh>>

\* =====================================================================
\* MeanReversionStrategy (with the broker's cash)
\* =====================================================================
BaseStakePermille == 10     \* base_stake_pct 0.01
MaxStakePermille == 50      \* max_stake_pct 0.05
MinStakePermille == 1       \* min_stake_pct 0.001
MRPayoutPercent == 95       \* the 0.95 of _update_pending_trades

MRExpiryMinutes == {1, 3}
MRCooldownMinutes == {1, 2}
MRMaxConcurrent == {1, 2}
MRMaxStreaks == {1, 2, 3}
\* What _check_signal can return: None, or a direction with strength 1 or 2.
MRSignals == {None} \cup {Some([direction |-> d, strength |-> k]) :
                             d \in {"CALL", "PUT"}, k \in {1, 2}}

MRNew(expiry_minutes, cooldown_minutes, max_concurrent_trades, max_win_streak, max_loss_streak) ==
    [params |-> [expiry_minutes |-> expiry_minutes,
                 cooldown_minutes |-> cooldown_minutes,
                 max_concurrent_trades |-> max_concurrent_trades,
                 max_win_streak |-> max_win_streak,
                 max_loss_streak |-> max_loss_streak],
     trades_executed |-> 0,
     pending_trades |-> <<>>,
     completed_trades |-> <<>>,
     win_streak |-> 0,
     loss_streak |-> 0,
     current_stake |-> None,
     last_profit |-> 0,
     last_trade_time |-> None,
     total_profit |-> 0,
     wins |-> 0,
     losses |-> 0,
     cash |-> InitialCash]

\* round(x, 2) for x = num / den pips, as pips: to the nearest cent, a tie
\* to the even cent.
RoundToCents(num, den) ==
    LET d == den * PipsPerCent
        q == num \div d
        r == num % d
    IN PipsPerCent * (IF 2 * r < d THEN q
                      ELSE IF 2 * r > d THEN q + 1
                      ELSE IF q % 2 = 0 THEN q ELSE q + 1)

Max2(a, b) == IF a >= b THEN a ELSE b
Min2(a, b) == IF a <= b THEN a ELSE b

\* Fault variant of _calculate_stake: the stake is not clamped.
CalculateStakeNoClamp(s, strength) ==
    LET current_cash == s.cash
        use_base == IsNone(s.current_stake) \/ (s.win_streak = 0 /\ s.loss_streak = 0)
        stake == IF use_base
                 THEN (current_cash * BaseStakePermille * (9 + strength)) \div 10
                 ELSE Val(s.current_stake) * 100 * (9 + strength)
    IN RoundToCents(stake, 1000)

\* Fault variant of the stake before clamping: the signal strength earns no
\* bonus.
StakeBeforeClampNoBonus(s, strength) ==
    LET current_cash == s.cash
        use_base == IsNone(s.current_stake) \/ (s.win_streak = 0 /\ s.loss_streak = 0)
    IN IF use_base
       THEN current_cash * BaseStakePermille
       ELSE Val(s.current_stake) * 1000

\* _calculate_stake up to the clamp: the base or the progressive stake times
\* the strength multiplier.  Inside _calculate_stake amounts are numerators
\* over 1000 pips: base_stake * strength_multiplier =
\* cash * 10/1000 * (9 + strength)/10 and current_stake * strength_multiplier
\* = current_stake * (9 + strength)/10.
StakeBeforeClamp(s, strength) ==
    LET current_cash == s.cash
        use_base == IsNone(s.current_stake) \/ (s.win_streak = 0 /\ s.loss_streak = 0)
    IN IF use_base
       THEN (current_cash * BaseStakePermille * (9 + strength)) \div 10
       ELSE Val(s.current_stake) * 100 * (9 + strength)

\* _calculate_stake: the clamp to the limits and the round to 2 decimals.
CalculateStake(s, strength) ==
    LET current_cash == s.cash
        stake == StakeBeforeClamp(s, strength)
        max_stake == current_cash * MaxStakePermille
        min_stake == current_cash * MinStakePermille
    IN RoundToCents(Max2(min_stake, Min2(stake, max_stake)), 1000)

\* Fault variant of _execute_trade: the stake is taken from the cash when
\* the trade is opened.
ExecuteTradeDebit(s, signal, current_time, current_price) ==
    LET stake == CalculateStake(s, signal.strength)
        trade_info == [id |-> s.trades_executed,
                       entry_time |-> current_time,
                       direction |-> signal.direction,
                       strength |-> signal.strength,
                       stake |-> stake,
                       entry_price |-> current_price,
                       expiry_time |-> current_time + s.params.expiry_minutes,
                       result |-> "None",
                       exit_price |-> None,
                       profit |-> 0]
    IN [s EXCEPT !.pending_trades = Append(@, trade_info),
                 !.trades_executed = @ + 1,
                 !.last_trade_time = Some(current_time),
                 !.cash = @ - stake]

\* Fault variant of _execute_trade: opening a trade stores its stake as the
\* sizer's current_stake.
ExecuteTradeSetsStake(s, signal, current_time, current_price) ==
    LET stake == CalculateStake(s, signal.strength)
        trade_info == [id |-> s.trades_executed,
                       entry_time |-> current_time,
                       direction |-> signal.direction,
                       strength |-> signal.strength,
                       stake |-> stake,
                       entry_price |-> current_price,
                       expiry_time |-> current_time + s.params.expiry_minutes,
                       result |-> "None",
                       exit_price |-> None,
                       profit |-> 0]
    IN [s EXCEPT !.pending_trades = Append(@, trade_info),
                 !.trades_executed = @ + 1,
                 !.last_trade_time = Some(current_time),
                 !.current_stake = Some(stake)]

\* _execute_trade.  The fields kept only for logging (signal_details,
\* win_streak, loss_streak, progressive_stake) are left out; id is the
\* position of the trade in the order of opening.
ExecuteTrade(s, signal, current_time, current_price) ==
    LET stake == CalculateStake(s, signal.strength)
        trade_info == [id |-> s.trades_executed,
                       entry_time |-> current_time,
                       direction |-> signal.direction,
                       strength |-> signal.strength,
                       stake |-> stake,
                       entry_price |-> current_price,
                       expiry_time |-> current_time + s.params.expiry_minutes,
                       result |-> "None",
                       exit_price |-> None,
                       profit |-> 0]
    IN [s EXCEPT !.pending_trades = Append(@, trade_info),
                 !.trades_executed = @ + 1,
                 !.last_trade_time = Some(current_time)]

\* Fault variant of _update_anti_martingale: the resets compare with >.
UpdateAntiMartingaleGT(s, won, profit, stake) ==
    IF won
    THEN LET w == s.win_streak + 1 IN
         IF w > s.params.max_win_streak
         THEN [s EXCEPT !.win_streak = 0, !.loss_streak = 0,
                        !.current_stake = None, !.last_profit = 0]
         ELSE [s EXCEPT !.win_streak = w, !.loss_streak = 0,
                        !.current_stake = Some(stake + profit),
                        !.last_profit = profit]
    ELSE LET l == s.loss_streak + 1 IN
         IF l > s.params.max_loss_streak
         THEN [s EXCEPT !.loss_streak = 0, !.win_streak = 0,
                        !.current_stake = None, !.last_profit = 0]
         ELSE [s EXCEPT !.loss_streak = l, !.win_streak = 0,
                        !.current_stake = Some(stake \div 2),
                        !.last_profit = profit]

\* Fault variant of _update_anti_martingale: after a loss the next stake is
\* stake + profit, as after a win.
UpdateAntiMartingaleLossAdd(s, won, profit, stake) ==
    IF won
    THEN LET w == s.win_streak + 1 IN
         IF w >= s.params.max_win_streak
         THEN [s EXCEPT !.win_streak = 0, !.loss_streak = 0,
                        !.current_stake = None, !.last_profit = 0]
         ELSE [s EXCEPT !.win_streak = w, !.loss_streak = 0,
                        !.current_stake = Some(stake + profit),
                        !.last_profit = profit]
    ELSE LET l == s.loss_streak + 1 IN
         IF l >= s.params.max_loss_streak
         THEN [s EXCEPT !.loss_streak = 0, !.win_streak = 0,
                        !.current_stake = None, !.last_profit = 0]
         ELSE [s EXCEPT !.loss_streak = l, !.win_streak = 0,
                        !.current_stake = Some(stake + profit),
                        !.last_profit = profit]

\* Fault variant of _update_anti_martingale: a win or a loss that does not
\* end a cycle leaves the other streak as it was.
UpdateAntiMartingaleKeep(s, won, profit, stake) ==
    IF won
    THEN LET w == s.win_streak + 1 IN
         IF w >= s.params.max_win_streak
         THEN [s EXCEPT !.win_streak = 0, !.loss_streak = 0,
                        !.current_stake = None, !.last_profit = 0]
         ELSE [s EXCEPT !.win_streak = w,
                        !.current_stake = Some(stake + profit),
                        !.last_profit = profit]
    ELSE LET l == s.loss_streak + 1 IN
         IF l >= s.params.max_loss_streak
         THEN [s EXCEPT !.loss_streak = 0, !.win_streak = 0,
                        !.current_stake = None, !.last_profit = 0]
         ELSE [s EXCEPT !.loss_streak = l,
                        !.current_stake = Some(stake \div 2),
                        !.last_profit = profit]

\* Fault variant of _update_anti_martingale: the loss cycle ends one loss
\* late.
UpdateAntiMartingaleLate(s, won, profit, stake) ==
    IF won
    THEN LET w == s.win_streak + 1 IN
         IF w >= s.params.max_win_streak
         THEN [s EXCEPT !.win_streak = 0, !.loss_streak = 0,
                        !.current_stake = None, !.last_profit = 0]
         ELSE [s EXCEPT !.win_streak = w, !.loss_streak = 0,
                        !.current_stake = Some(stake + profit),
                        !.last_profit = profit]
    ELSE LET l == s.loss_streak + 1 IN
         IF l > s.params.max_loss_streak
         THEN [s EXCEPT !.loss_streak = 0, !.win_streak = 0,
                        !.current_stake = None, !.last_profit = 0]
         ELSE [s EXCEPT !.loss_streak = l, !.win_streak = 0,
                        !.current_stake = Some(stake \div 2),
                        !.last_profit = profit]

\* Fault variant of _update_anti_martingale: the end of a cycle zeroes the
\* streaks and leaves current_stake as the last trade set it.
UpdateAntiMartingaleStale(s, won, profit, stake) ==
    IF won
    THEN LET w == s.win_streak + 1 IN
         IF w >= s.params.max_win_streak
         THEN [s EXCEPT !.win_streak = 0, !.loss_streak = 0,
                        !.current_stake = Some(stake + profit),
                        !.last_profit = 0]
         ELSE [s EXCEPT !.win_streak = w, !.loss_streak = 0,
                        !.current_stake = Some(stake + profit),
                        !.last_profit = profit]
    ELSE LET l == s.loss_streak + 1 IN
         IF l >= s.params.max_loss_streak
         THEN [s EXCEPT !.loss_streak = 0, !.win_streak = 0,
                        !.current_stake = Some(stake \div 2),
                        !.last_profit = 0]
         ELSE [s EXCEPT !.loss_streak = l, !.win_streak = 0,
                        !.current_stake = Some(stake \div 2),
                        !.last_profit = profit]

\* _update_anti_martingale
UpdateAntiMartingale(s, won, profit, stake) ==
    IF won
    THEN LET w == s.win_streak + 1 IN
         IF w >= s.params.max_win_streak
         THEN [s EXCEPT !.win_streak = 0, !.loss_streak = 0,
                        !.current_stake = None, !.last_profit = 0]
         ELSE [s EXCEPT !.win_streak = w, !.loss_streak = 0,
                        !.current_stake = Some(stake + profit),
                        !.last_profit = profit]
    ELSE LET l == s.loss_streak + 1 IN
         IF l >= s.params.max_loss_streak
         THEN [s EXCEPT !.loss_streak = 0, !.win_streak = 0,
                        !.current_stake = None, !.last_profit = 0]
         ELSE [s EXCEPT !.loss_streak = l, !.win_streak = 0,
                        !.current_stake = Some(stake \div 2),
                        !.last_profit = profit]

\* Fault variant of the comparison: a tie counts as won.
MRWonGE(trade, exit_price) ==
    IF trade.direction = "CALL"
    THEN exit_price >= trade.entry_price
    ELSE exit_price <= trade.entry_price

\* The comparison of _update_pending_trades; anything but CALL is a PUT.
MRWon(trade, exit_price) ==
    IF trade.direction = "CALL"
    THEN exit_price > trade.entry_price
    ELSE exit_price < trade.entry_price

\* The loop body of _update_pending_trades for one expired trade.
MRSettleOne(s, trade, exit_price) ==
    LET won == MRWon(trade, exit_price)
        profit == IF won THEN (trade.stake * MRPayoutPercent) \div 100
                  ELSE -trade.stake
        s1 == UpdateAntiMartingale(
                  [s EXCEPT !.wins = IF won THEN @ + 1 ELSE @,
                            !.losses = IF won THEN @ ELSE @ + 1],
                  won, profit, trade.stake)
        done == [trade EXCEPT !.result = IF won THEN "won" ELSE "lost",
                              !.exit_price = Some(exit_price),
                              !.profit = profit]
    IN [s1 EXCEPT !.total_profit = @ + profit,
                  !.cash = @ + profit,
                  !.completed_trades = Append(@, done)]

\* Fault variant of the removal: settled trades stay in pending_trades.
MRRemoveExpiredNone(pending, expired) == pending

\* list.remove for each expired trade: the trades settled in this call leave
\* pending_trades.

MRRemoveExpired(pending, expired) ==
    LET Keep(t) == t.id \notin expired IN SelectSeq(pending, Keep)

\* _update_pending_trades: the loop over pending_trades from position i on,
\* with the ids of the trades settled so far, then the removals.
RECURSIVE MRUpdateFrom(_, _, _, _, _)
MRUpdateFrom(s, i, expired_trades, current_time, current_price) ==
    IF i > Len(s.pending_trades)
    THEN [s EXCEPT !.pending_trades = MRRemoveExpired(@, expired_trades)]
    ELSE LET trade == s.pending_trades[i] IN
         IF current_time >= trade.expiry_time
         THEN MRUpdateFrom(MRSettleOne(s, trade, current_price), i + 1,
                           expired_trades \cup {trade.id},
                           current_time, current_price)
         ELSE MRUpdateFrom(s, i + 1, expired_trades, current_time, current_price)

\* The sequence s back to front.
Reverse(s) == [i \in 1..Len(s) |-> s[Len(s) + 1 - i]]

\* Fault variant of _update_pending_trades: the loop visits the pending
\* trades from the last opened to the first.
UpdatePendingTradesReversed(s, current_time, current_price) ==
    LET r == MRUpdateFrom([s EXCEPT !.pending_trades = Reverse(@)], 1, {},
                          current_time, current_price)
    IN [r EXCEPT !.pending_trades = Reverse(@)]

UpdatePendingTrades(s, current_time, current_price) ==
    MRUpdateFrom(s, 1, {}, current_time, current_price)

\* Fault variant of _in_cooldown: the comparison is <=.
InCooldownLE(s, current_time) ==
    IF IsNone(s.last_trade_time) THEN FALSE
    ELSE current_time - Val(s.last_trade_time) <= s.params.cooldown_minutes

\* _in_cooldown
InCooldown(s, current_time) ==
    IF IsNone(s.last_trade_time) THEN FALSE
    ELSE current_time - Val(s.last_trade_time) < s.params.cooldown_minutes

\* Fault variant of the concurrency gate: the comparison is >.
AtMaxConcurrentGT(s) == Len(s.pending_trades) > s.params.max_concurrent_trades

\* The second early return of next().
AtMaxConcurrent(s) == Len(s.pending_trades) >= s.params.max_concurrent_trades

\* next(): the cooldown gate, the concurrency gate, then the settlements,
\* then the signal.
MRNextResult(s, current_time, current_price, signal) ==
    IF InCooldown(s, current_time) THEN s
    ELSE IF AtMaxConcurrent(s) THEN s
    ELSE LET s1 == UpdatePendingTrades(s, current_time, current_price) IN
         IF ~IsNone(signal)
         THEN ExecuteTrade(s1, Val(signal), current_time, current_price)
         ELSE s1

MRNext ==
    /\ comp = "mr"
    /\ candles < MaxCandles
    /\ \E dt \in Gaps, p \in Prices, sig \in MRSignals :
          /\ now' = now + dt
          /\ mr' = MRNextResult(mr, now + dt, p, sig)
    /\ call' = [op |-> "next"]
    /\ ret' = "None"
    /\ candles' = candles + 1
    /\ UNCHANGED <<comp, tm, bs, v4, ms, am, fx, rh>>

\* _update_anti_martingale called on its own (as a unit test calls it), with
\* arguments the settlement loop need not produce.
SizerStakes == {100000, 195000, 50000, 10000, 600000}
SizerProfits == {95000, 185250, -100000, -50000}
\* What broker.get_cash() returns when _calculate_stake is exercised on its
\* own: the initial cash, and 1000.16, of which 0.1% and 5% are not whole
\* cents.
SizerCash == {InitialCash, 10001600}

MRSizerUpdate ==
    /\ comp = "sizer"
    /\ \E won \in BOOLEAN, profit \in SizerProfits, stake \in SizerStakes :
          /\ mr' = UpdateAntiMartingale(mr, won, profit, stake)
          /\ call' = [op |-> "_update_anti_martingale", won |-> won,
                      profit |-> profit, stake |-> stake]
    /\ ret' = "None"
    /\ UNCHANGED <<comp, now, candles, tm, bs, v4, ms, am, fx, rh>>

\* _calculate_stake called on its own, the broker reporting some cash; it
\* returns the stake and leaves the strategy as it was.
MRCalculateStake ==
    /\ comp = "sizer"
    /\ \E strength \in {1, 2}, cash \in SizerCash :
          /\ call' = [op |-> "_calculate_stake", strength |-> strength,
                      cash |-> cash]
          /\ ret' = CalculateStake([mr EXCEPT !.cash = cash], strength)
    /\ UNCHANGED <<comp, now, candles, tm, bs, mr, v4, ms, am, fx, rh>>

\* =====================================================================
\* MeanReversionStrategyV4: the sizer state and notify_trade
\* =====================================================================
V4New(max_win_streak, max_loss_streak) ==
    [params |-> [max_win_streak |-> max_win_streak,
                 max_loss_streak |-> max_loss_streak],
     win_streak |-> 0,
     loss_streak |-> 0,
     current_stake |-> None,
     last_profit |-> 0]

\* MeanReversionStrategyV4._update_anti_martingale
UpdateAntiMartingaleV4(s, won, profit, stake) ==
    IF won
    THEN LET w == s.win_streak + 1 IN
         IF w >= s.params.max_win_streak
         THEN [s EXCEPT !.win_streak = 0, !.loss_streak = 0,
                        !.current_stake = None, !.last_profit = 0]
         ELSE [s EXCEPT !.win_streak = w, !.loss_streak = 0,
                        !.current_stake = Some(stake + profit),
                        !.last_profit = profit]
    ELSE LET l == s.loss_streak + 1 IN
         IF l >= s.params.max_loss_streak
         THEN [s EXCEPT !.loss_streak = 0, !.win_streak = 0,
                        !.current_stake = None, !.last_profit = 0]
         ELSE [s EXCEPT !.loss_streak = l, !.win_streak = 0,
                        !.current_stake = Some(stake \div 2),
                        !.last_profit = profit]

Abs(x) == IF x < 0 THEN -x ELSE x

\* notify_trade: a closed trade updates the sizer with won = pnl > 0,
\* profit = pnl and stake = abs(value); an open one changes nothing.
V4NotifyTradeResult(s, isclosed, pnl, value) ==
    IF isclosed THEN UpdateAntiMartingaleV4(s, pnl > 0, pnl, Abs(value)) ELSE s

V4NotifyTrade ==
    /\ comp = "v4"
    /\ \E isclosed \in BOOLEAN, pnl \in SizerProfits \cup {0},
          value \in SizerStakes \cup {-100000} :
          /\ v4' = V4NotifyTradeResult(v4, isclosed, pnl, value)
          /\ call' = [op |-> "notify_trade", isclosed |-> isclosed,
                      pnl |-> pnl, value |-> value]
    /\ ret' = "None"
    /\ UNCHANGED <<comp, now, candles, tm, bs, mr, ms, am, fx, rh>>

\* =====================================================================
\* BaseBinarySizer, MartingaleSizer, AntiMartingaleSizer
\* =====================================================================
SizerMultipliers == {2, 3}
SizerMaxMultipliers == {2, 3}
SizerMaxStakes == {None, Some(500000)}
\* The pnl of the trades notified: a win, a break-even, a loss.
TradePnls == {95000, 0, -100000}
\* The cash passed to _getsizing: the initial cash, less than a stake, less
\* than min_stake, and none.
SizingCash == {InitialCash, 150000, 5000, 0}

\* Python's truth value of an optional number: None and 0 are false.
Truthy(o) == ~IsNone(o) /\ Val(o) # 0

\* multiplier ** max_multiplier for a non-negative integer exponent.
RECURSIVE Pow(_, _)
Pow(b, e) == IF e = 0 THEN 1 ELSE b * Pow(b, e - 1)

\* MartingaleSizer.__init__ after BaseBinarySizer.__init__, with the
\* defaults stake = 10.0, stake_pct = None, min_stake = 1.0.
MartingaleNew(multiplier, max_multiplier, reset_on_win, max_stake) ==
    [params |-> [stake |-> 100000,
                 stake_pct |-> None,
                 min_stake |-> Some(10000),
                 max_stake |-> max_stake,
                 multiplier |-> multiplier,
                 max_multiplier |-> max_multiplier,
                 reset_on_win |-> reset_on_win],
     current_stake |-> 100000,
     last_trade_pnl |-> 0,
     consecutive_wins |-> 0,
     consecutive_losses |-> 0,
     base_stake |-> 100000,
     current_multiplier |-> 1]

\* AntiMartingaleSizer.__init__ after BaseBinarySizer.__init__.
AntiMartingaleNew(multiplier, max_multiplier, reset_on_loss, max_stake) ==
    [params |-> [stake |-> 100000,
                 stake_pct |-> None,
                 min_stake |-> Some(10000),
                 max_stake |-> max_stake,
                 multiplier |-> multiplier,
                 max_multiplier |-> max_multiplier,
                 reset_on_loss |-> reset_on_loss],
     current_stake |-> 100000,
     last_trade_pnl |-> 0,
     consecutive_wins |-> 0,
     consecutive_losses |-> 0,
     base_stake |-> 100000,
     current_multiplier |-> 1]

\* BaseBinarySizer.notify_trade
BaseNotifyTrade(s, isclosed, pnl) ==
    IF ~isclosed THEN s
    ELSE IF pnl > 0
    THEN [s EXCEPT !.last_trade_pnl = pnl,
                   !.consecutive_wins = @ + 1,
                   !.consecutive_losses = 0]
    ELSE [s EXCEPT !.last_trade_pnl = pnl,
                   !.consecutive_losses = @ + 1,
                   !.consecutive_wins = 0]

\* Fault variant of _getsizing: the stake is not limited to the cash.
GetSizingNoCashLimit(s, cash, next_stake) ==
    LET stake0 == IF Truthy(s.params.stake_pct)
                  THEN (cash * Val(s.params.stake_pct)) \div 1000
                  ELSE next_stake
        stake1 == IF Truthy(s.params.min_stake)
                  THEN Max2(stake0, Val(s.params.min_stake))
                  ELSE stake0
    IN IF Truthy(s.params.max_stake)
       THEN Min2(stake1, Val(s.params.max_stake))
       ELSE stake1

\* BaseBinarySizer._getsizing, given what _calculate_next_stake returns.
\* stake_pct is in per mille.
GetSizing(s, cash, next_stake) ==
    LET stake0 == IF Truthy(s.params.stake_pct)
                  THEN (cash * Val(s.params.stake_pct)) \div 1000
                  ELSE next_stake
        stake1 == IF Truthy(s.params.min_stake)
                  THEN Max2(stake0, Val(s.params.min_stake))
                  ELSE stake0
        stake2 == IF Truthy(s.params.max_stake)
                  THEN Min2(stake1, Val(s.params.max_stake))
                  ELSE stake1
    IN Min2(stake2, cash)

\* MartingaleSizer._calculate_next_stake
MartingaleCalculateNextStake(s) == s.base_stake * s.current_multiplier

\* Fault variant of MartingaleSizer.notify_trade: a loss adds the multiplier
\* parameter instead of multiplying by it.
MartingaleNotifyTradeAdd(s, isclosed, pnl) ==
    LET s1 == BaseNotifyTrade(s, isclosed, pnl) IN
    IF ~isclosed THEN s1
    ELSE IF pnl > 0
    THEN (IF s.params.reset_on_win THEN [s1 EXCEPT !.current_multiplier = 1] ELSE s1)
    ELSE LET max_mult == Pow(s.params.multiplier, s.params.max_multiplier)
         IN [s1 EXCEPT !.current_multiplier =
                           Min2(@ + s.params.multiplier, max_mult)]

\* Fault variant of MartingaleSizer.notify_trade: the progression has no cap.
MartingaleNotifyTradeNoCap(s, isclosed, pnl) ==
    LET s1 == BaseNotifyTrade(s, isclosed, pnl) IN
    IF ~isclosed THEN s1
    ELSE IF pnl > 0
    THEN (IF s.params.reset_on_win THEN [s1 EXCEPT !.current_multiplier = 1] ELSE s1)
    ELSE [s1 EXCEPT !.current_multiplier = @ * s.params.multiplier]

\* MartingaleSizer.notify_trade
MartingaleNotifyTradeResult(s, isclosed, pnl) ==
    LET s1 == BaseNotifyTrade(s, isclosed, pnl) IN
    IF ~isclosed THEN s1
    ELSE IF pnl > 0
    THEN (IF s.params.reset_on_win THEN [s1 EXCEPT !.current_multiplier = 1] ELSE s1)
    ELSE LET max_mult == Pow(s.params.multiplier, s.params.max_multiplier)
         IN [s1 EXCEPT !.current_multiplier =
                           Min2(@ * s.params.multiplier, max_mult)]

\* AntiMartingaleSizer._calculate_next_stake
AntiMartingaleCalculateNextStake(s) == s.base_stake * s.current_multiplier

\* Fault variant of AntiMartingaleSizer.notify_trade: a loss halves the
\* multiplier instead of resetting it.
AntiMartingaleNotifyTradeHalve(s, isclosed, pnl) ==
    LET s1 == BaseNotifyTrade(s, isclosed, pnl) IN
    IF ~isclosed THEN s1
    ELSE IF pnl > 0
    THEN LET max_mult == Pow(s.params.multiplier, s.params.max_multiplier)
         IN [s1 EXCEPT !.current_multiplier =
                           Min2(@ * s.params.multiplier, max_mult)]
    ELSE (IF s.params.reset_on_loss
          THEN [s1 EXCEPT !.current_multiplier = Max2(1, @ \div 2)]
          ELSE s1)

\* AntiMartingaleSizer.notify_trade
AntiMartingaleNotifyTradeResult(s, isclosed, pnl) ==
    LET s1 == BaseNotifyTrade(s, isclosed, pnl) IN
    IF ~isclosed THEN s1
    ELSE IF pnl > 0
    THEN LET max_mult == Pow(s.params.multiplier, s.params.max_multiplier)
         IN [s1 EXCEPT !.current_multiplier =
                           Min2(@ * s.params.multiplier, max_mult)]
    ELSE (IF s.params.reset_on_loss THEN [s1 EXCEPT !.current_multiplier = 1] ELSE s1)

\* ----------------------------------------------------------- FixedSizer
FixedStakes == {100000, 250000}
SizerMinStakes == {None, Some(10000), Some(600000)}
SizerStakePcts == {None, Some(10)}
\* max_stake: no limit, a limit of zero, a limit below min_stake, a limit
\* above the stake.
FixedMaxStakes == {None, Some(0), Some(5000), Some(200000)}

\* BaseBinarySizer.__init__, which FixedSizer inherits.
FixedNew(stake, stake_pct, min_stake, max_stake) ==
    [params |-> [stake |-> stake,
                 stake_pct |-> stake_pct,
                 min_stake |-> min_stake,
                 max_stake |-> max_stake],
     current_stake |-> stake,
     last_trade_pnl |-> 0,
     consecutive_wins |-> 0,
     consecutive_losses |-> 0]

\* Fault variant of FixedSizer._calculate_next_stake: the stake grows with
\* the losing streak.
FixedCalculateNextStakeStreak(s) == s.params.stake * (1 + s.consecutive_losses)

\* FixedSizer._calculate_next_stake
FixedCalculateNextStake(s) == s.params.stake


\* ----------------------------------------------------- sizer actions
MartingaleNotifyTrade ==
    /\ comp = "martingale"
    /\ candles < MaxTrades
    /\ \E isclosed \in BOOLEAN, pnl \in TradePnls :
          /\ ms' = MartingaleNotifyTradeResult(ms, isclosed, pnl)
          /\ call' = [op |-> "notify_trade", isclosed |-> isclosed, pnl |-> pnl]
    /\ ret' = "None"
    /\ candles' = candles + 1
    /\ UNCHANGED <<comp, now, tm, bs, mr, v4, am, fx, rh>>

\* Backtrader asks for the size of the next order.
MartingaleGetSizing ==
    /\ comp = "martingale"
    /\ \E cash \in SizingCash :
          /\ call' = [op |-> "_getsizing", cash |-> cash]
          /\ ret' = GetSizing(ms, cash, MartingaleCalculateNextStake(ms))
    /\ UNCHANGED <<comp, now, candles, tm, bs, mr, v4, ms, am, fx, rh>>

AntiMartingaleNotifyTrade ==
    /\ comp = "antimartingale"
    /\ candles < MaxTrades
    /\ \E isclosed \in BOOLEAN, pnl \in TradePnls :
          /\ am' = AntiMartingaleNotifyTradeResult(am, isclosed, pnl)
          /\ call' = [op |-> "notify_trade", isclosed |-> isclosed, pnl |-> pnl]
    /\ ret' = "None"
    /\ candles' = candles + 1
    /\ UNCHANGED <<comp, now, tm, bs, mr, v4, ms, fx, rh>>

AntiMartingaleGetSizing ==
    /\ comp = "antimartingale"
    /\ \E cash \in SizingCash :
          /\ call' = [op |-> "_getsizing", cash |-> cash]
          /\ ret' = GetSizing(am, cash, AntiMartingaleCalculateNextStake(am))
    /\ UNCHANGED <<comp, now, candles, tm, bs, mr, v4, ms, am, fx, rh>>

\* FixedSizer inherits notify_trade from BaseBinarySizer.
FixedNotifyTrade ==
    /\ comp = "fixed"
    /\ candles < MaxTrades
    /\ \E isclosed \in BOOLEAN, pnl \in TradePnls :
          /\ fx' = BaseNotifyTrade(fx, isclosed, pnl)
          /\ call' = [op |-> "notify_trade", isclosed |-> isclosed, pnl |-> pnl]
    /\ ret' = "None"
    /\ candles' = candles + 1
    /\ UNCHANGED <<comp, now, tm, bs, mr, v4, ms, am, rh>>

FixedNextStake ==
    /\ comp = "fixed"
    /\ call' = [op |-> "_calculate_next_stake"]
    /\ ret' = FixedCalculateNextStake(fx)
    /\ UNCHANGED <<comp, now, candles, tm, bs, mr, v4, ms, am, fx, rh>>

FixedGetSizing ==
    /\ comp = "fixed"
    /\ \E cash \in SizingCash :
          /\ call' = [op |-> "_getsizing", cash |-> cash]
          /\ ret' = GetSizing(fx, cash, FixedCalculateNextStake(fx))
    /\ UNCHANGED <<comp, now, candles, tm, bs, mr, v4, ms, am, fx, rh>>

\* =====================================================================
\* ReversalHunterBalancedStrategy (with the broker's cash)
\* =====================================================================
RHBaseStakePermille == 10      \* base_stake_percentage 0.01
RHWinStreakTenths == 2         \* win_streak_multiplier 0.2
RHLossStreakTenths == 3        \* loss_streak_multiplier 0.3
RHMinMultiplierTenths == 2     \* the 0.2 of max(0.2, 1.0 - loss_penalty)
RHMinStakePermille == 1        \* the 0.001 of max(current_cash * 0.001, 0.5)
RHMinStakePips == 5000         \* the 0.5 of max(current_cash * 0.001, 0.5)
RHPayoutPercent == 95          \* the 0.95 of _check_expired_contracts
RHExpirySeconds == 60          \* the 60 of _check_expired_contracts

RHExpirationTimes == {1, 2}
RHPayoutRates == {95, 80}
RHMaxConcurrent == {1, 2}
\* What the pattern detection and the filters of generate_signal let
\* through on a candle: nothing, a bullish pattern, a bearish pattern.
RHPatterns == {None, Some("bullish"), Some("bearish")}

\* BaseBinaryStrategy.__init__ followed by the subclass's __init__.
RHNew(expiration_time, payout_rate, cooldown_seconds, max_concurrent_trades, max_win_streak_bonus, max_consecutive_losses) ==
    [params |-> [expiration_time |-> expiration_time,
                 stake_amount |-> 100000,
                 payout_rate |-> payout_rate,
                 cooldown_seconds |-> cooldown_seconds,
                 max_concurrent_trades |-> max_concurrent_trades,
                 max_win_streak_bonus |-> max_win_streak_bonus,
                 max_consecutive_losses |-> max_consecutive_losses],
     binary_contracts |-> <<>>,
     contract_counter |-> 0,
     last_signal_time |-> None,
     cooldown_seconds |-> 60,
     total_trades |-> 0,
     won_trades |-> 0,
     lost_trades |-> 0,
     total_profit |-> 0,
     cash |-> InitialCash,
     crashed |-> FALSE,
     log |-> <<>>,
     win_streak |-> 0,
     loss_streak |-> 0,
     accumulated_profit |-> 0,
     stake_multiplier |-> 10,    \* in tenths
     pending_trades |-> <<>>,
     completed_trades |-> <<>>,
     active_trades |-> 0,
     signals_generated |-> 0,
     trades_executed |-> 0]

\* _is_in_cooldown of the subclass: the cooldown_seconds parameter, not the
\* attribute the base class sets.
RHIsInCooldown(s, current_time) ==
    IF IsNone(s.last_signal_time) THEN FALSE
    ELSE (current_time - Val(s.last_signal_time)) * SecondsPerMinute
             < s.params.cooldown_seconds

\* The multiplier of _calculate_anti_martingale_stake, in tenths.
RHMultiplier(s) ==
    IF s.win_streak > 0
    THEN 10 + Min2(s.win_streak, s.params.max_win_streak_bonus) * RHWinStreakTenths
    ELSE IF s.loss_streak > 0
    THEN Max2(RHMinMultiplierTenths,
              10 - Min2(s.loss_streak, s.params.max_consecutive_losses)
                       * RHLossStreakTenths)
    ELSE 10

\* _calculate_anti_martingale_stake, the stake taken to the pip.
CalculateAntiMartingaleStake(s) ==
    LET base_stake == (s.cash * RHBaseStakePermille) \div 1000
        stake == (base_stake * RHMultiplier(s)) \div 10
        min_stake == Max2((s.cash * RHMinStakePermille) \div 1000, RHMinStakePips)
    IN Max2(stake, min_stake)

\* _execute_binary_trade of the subclass: the stake, the trade_info record
\* appended to pending_trades, then the base class's method.
RHExecuteBinaryTrade(s, direction, current_time, current_price) ==
    LET stake == CalculateAntiMartingaleStake(s)
        trade_info == [entry_time |-> current_time,
                       direction |-> direction,
                       stake |-> stake,
                       result |-> None,
                       entry_price |-> current_price,
                       trade_number |-> s.trades_executed + 1]
        s1 == [s EXCEPT !.stake_multiplier = RHMultiplier(s),
                        !.params.stake_amount = stake,
                        !.pending_trades = Append(@, trade_info)]
        s2 == ExecuteBinaryTrade(s1, direction, current_time, current_price)
    IN [s2 EXCEPT !.trades_executed = @ + 1]

RHTradeExpired(trade, current_time) ==
    (current_time - trade.entry_time) * SecondsPerMinute >= RHExpirySeconds

RHTradeWon(trade, current_price) ==
    IF trade.direction = "CALL"
    THEN current_price > trade.entry_price
    ELSE current_price < trade.entry_price

\* The profit get_statistics reports for a completed trade.
RHTradeProfit(trade) ==
    IF trade.result = Some("won")
    THEN (trade.stake * RHPayoutPercent) \div 100
    ELSE -trade.stake

\* The loop body of the subclass's _check_expired_contracts for one expired
\* trade.  Only the winning streak is reset at its maximum.
RHSettleTrade(s, trade, current_price) ==
    LET won == RHTradeWon(trade, current_price)
        s1 == IF won
              THEN [s EXCEPT !.win_streak = @ + 1,
                             !.loss_streak = 0,
                             !.accumulated_profit =
                                 @ + (trade.stake * RHPayoutPercent) \div 100]
              ELSE [s EXCEPT !.loss_streak = @ + 1,
                             !.win_streak = 0,
                             !.accumulated_profit = @ - trade.stake]
        s2 == IF s1.win_streak >= s1.params.max_win_streak_bonus
              THEN [s1 EXCEPT !.win_streak = 0] ELSE s1
        done == [trade EXCEPT !.result = Some(IF won THEN "won" ELSE "lost")]
        Other(x) == x.trade_number # trade.trade_number
    IN [s2 EXCEPT !.completed_trades = Append(@, done),
                  !.pending_trades = SelectSeq(@, Other),
                  !.active_trades = @ - 1]

\* The second loop of _check_expired_contracts over expired_trades from
\* position i on.
RECURSIVE RHSettleFrom(_, _, _, _)
RHSettleFrom(s, i, expired_trades, current_price) ==
    IF i > Len(expired_trades) THEN s
    ELSE RHSettleFrom(RHSettleTrade(s, expired_trades[i], current_price),
                      i + 1, expired_trades, current_price)

\* _check_expired_contracts of the subclass: the base class's settlement of
\* binary_contracts, then the pending trades that are 60 seconds old.
RHCheckExpiredContracts(s, current_time, current_price) ==
    LET s1 == CheckExpiredContracts(s, current_time, current_price)
        Expired(trade) == RHTradeExpired(trade, current_time)
        expired_trades == SelectSeq(s1.pending_trades, Expired)
    IN RHSettleFrom(s1, 1, expired_trades, current_price)

\* generate_signal with enough bars: the concurrency gate, the cooldown
\* gate, the pattern and filters, then the counters.  Returns the new state
\* and the direction (or None).
RHGenerateSignal(s, current_time, pattern) ==
    IF s.active_trades >= s.params.max_concurrent_trades
    THEN [state |-> s, signal |-> None]
    ELSE IF RHIsInCooldown(s, current_time)
    THEN [state |-> s, signal |-> None]
    ELSE IF IsNone(pattern)
    THEN [state |-> s, signal |-> None]
    ELSE [state |-> [s EXCEPT !.signals_generated = @ + 1,
                              !.last_signal_time = Some(current_time),
                              !.active_trades = @ + 1],
          signal |-> Some(IF Val(pattern) = "bullish" THEN "CALL" ELSE "PUT")]

\* BaseBinaryStrategy.next as the subclass runs it.
RHNextResult(s, current_time, current_price, pattern) ==
    LET s1 == RHCheckExpiredContracts(s, current_time, current_price) IN
    IF RHIsInCooldown(s1, current_time) THEN s1
    ELSE LET g == RHGenerateSignal(s1, current_time, pattern) IN
         IF ~IsNone(g.signal)
         THEN RHExecuteBinaryTrade(g.state, Val(g.signal), current_time, current_price)
         ELSE g.state

RHNext ==
    /\ comp = "rh"
    /\ candles < MaxCandles
    /\ \E dt \in Gaps, p \in Prices, pattern \in RHPatterns :
          /\ now' = now + dt
          /\ rh' = RHNextResult(rh, now + dt, p, pattern)
    /\ call' = [op |-> "next"]
    /\ ret' = "None"
    /\ candles' = candles + 1
    /\ UNCHANGED <<comp, tm, bs, mr, v4, ms, am, fx>>

\* =====================================================================
\* A run drives one object; the others stay as constructed with the
\* default parameters.
MRDefault == MRNew(3, 2, 3, 2, 3)
\* Two trades opened one minute apart are both open for a minute, and the
\* concurrency gate lets the candle after their expiries settle both.
MROverlap == MRNew(2, 1, 3, 2, 3)
\* Nothing in __init__ checks the parameters: an expiry of zero minutes and
\* streak limits of zero are accepted.
MRInvalid == MRNew(0, 2, 2, 0, 0)
MartingaleDefault == MartingaleNew(2, 3, TRUE, None)
AntiMartingaleDefault == AntiMartingaleNew(2, 3, TRUE, None)
FixedDefault == FixedNew(100000, None, Some(10000), None)
RHDefault == RHNew(1, 95, 60, 1, 2, 2)

Init ==
    /\ now = 0
    /\ candles = 0
    /\ call = NoCall
    /\ ret = "None"
    /\ \/ /\ comp = "tm"
          /\ fx = FixedDefault /\ rh = RHDefault
          /\ tm \in {TMNew(r) : r \in TMPayoutRates}
          /\ bs = BSNew(1) /\ mr = MRDefault /\ v4 = V4New(2, 3)
          /\ ms = MartingaleDefault /\ am = AntiMartingaleDefault
       \/ /\ comp = "bs"
          /\ fx = FixedDefault /\ rh = RHDefault
          /\ bs \in {BSNew(e) : e \in BSExpirationTimes}
          /\ tm = TMNew(80) /\ mr = MRDefault /\ v4 = V4New(2, 3)
          /\ ms = MartingaleDefault /\ am = AntiMartingaleDefault
       \/ /\ comp = "mr"
          /\ fx = FixedDefault /\ rh = RHDefault
          /\ mr \in {MRNew(e, c, m, 2, 3) : e \in MRExpiryMinutes,
                                           c \in MRCooldownMinutes,
                                           m \in MRMaxConcurrent}
                    \cup {MROverlap, MRInvalid}
          /\ tm = TMNew(80) /\ bs = BSNew(1) /\ v4 = V4New(2, 3)
          /\ ms = MartingaleDefault /\ am = AntiMartingaleDefault
       \/ /\ comp = "sizer"
          /\ fx = FixedDefault /\ rh = RHDefault
          /\ mr \in {MRNew(3, 2, 3, w, l) : w \in MRMaxStreaks, l \in MRMaxStreaks}
          /\ tm = TMNew(80) /\ bs = BSNew(1) /\ v4 = V4New(2, 3)
          /\ ms = MartingaleDefault /\ am = AntiMartingaleDefault
       \/ /\ comp = "v4"
          /\ fx = FixedDefault /\ rh = RHDefault
          /\ v4 \in {V4New(w, l) : w \in MRMaxStreaks, l \in MRMaxStreaks}
          /\ tm = TMNew(80) /\ bs = BSNew(1) /\ mr = MRDefault
          /\ ms = MartingaleDefault /\ am = AntiMartingaleDefault
       \/ /\ comp = "martingale"
          /\ fx = FixedDefault /\ rh = RHDefault
          /\ ms \in {MartingaleNew(m, k, r, x) : m \in SizerMultipliers,
                                                k \in SizerMaxMultipliers,
                                                r \in BOOLEAN,
                                                x \in SizerMaxStakes}
          /\ tm = TMNew(80) /\ bs = BSNew(1) /\ mr = MRDefault /\ v4 = V4New(2, 3)
          /\ am = AntiMartingaleDefault
       \/ /\ comp = "antimartingale"
          /\ fx = FixedDefault /\ rh = RHDefault
          /\ am \in {AntiMartingaleNew(m, k, r, x) : m \in SizerMultipliers,
                                                    k \in SizerMaxMultipliers,
                                                    r \in BOOLEAN,
                                                    x \in SizerMaxStakes}
          /\ tm = TMNew(80) /\ bs = BSNew(1) /\ mr = MRDefault /\ v4 = V4New(2, 3)
          /\ ms = MartingaleDefault
       \/ /\ comp = "fixed"
          /\ rh = RHDefault
          /\ fx \in {FixedNew(s, p, lo, hi) : s \in FixedStakes,
                                             p \in SizerStakePcts,
                                             lo \in SizerMinStakes,
                                             hi \in FixedMaxStakes}
          /\ tm = TMNew(80) /\ bs = BSNew(1) /\ mr = MRDefault /\ v4 = V4New(2, 3)
          /\ ms = MartingaleDefault /\ am = AntiMartingaleDefault
       \/ /\ comp = "rh"
          /\ rh \in {RHNew(e, r, 60, m, 2, 2) : e \in RHExpirationTimes,
                                               r \in RHPayoutRates,
                                               m \in RHMaxConcurrent}
          /\ tm = TMNew(80) /\ bs = BSNew(1) /\ mr = MRDefault /\ v4 = V4New(2, 3)
          /\ ms = MartingaleDefault /\ am = AntiMartingaleDefault /\ fx = FixedDefault

Next ==
    \/ TMCreate
    \/ TMEvaluate
    \/ TMTick
    \/ BSNext
    \/ MRNext
    \/ MRSizerUpdate
    \/ MRCalculateStake
    \/ V4NotifyTrade
    \/ MartingaleNotifyTrade
    \/ MartingaleGetSizing
    \/ AntiMartingaleNotifyTrade
    \/ AntiMartingaleGetSizing
    \/ FixedNotifyTrade
    \/ FixedNextStake
    \/ FixedGetSizing
    \/ RHNext

Spec == Init /\ [][Next]_vars

\* =====================================================================
\* Properties
\* =====================================================================
Range(s) == {s[i] : i \in 1..Len(s)}
Count(s, id) == Cardinality({i \in 1..Len(s) : s[i].id = id})

RECURSIVE SumPlainProfit(_)
SumPlainProfit(s) ==
    IF s = <<>> THEN 0 ELSE Head(s).profit + SumPlainProfit(Tail(s))

\* The sequence s without its first n elements.
Drop(s, n) == SubSeq(s, n + 1, Len(s))
IsPrefix(s, t) == Len(s) <= Len(t) /\ SubSeq(t, 1, Len(s)) = s

\* The outcome rule of the specification.
WinRule(direction, entry_price, exit_price) ==
    \/ direction = "CALL" /\ exit_price > entry_price
    \/ direction = "PUT" /\ exit_price < entry_price

\* ---------------------------------------------------------------------
\* C1  Outcome correctness.  Every settled contract, in the manager's
\* completed_contracts, in the base strategy's settlement lines and in the
\* mean-reversion strategy's completed_trades, is won exactly when a CALL
\* closed above or a PUT closed below its entry price; a tie is lost; and
\* its profit is stake * payout when won and -stake when lost.
C1_OutcomeCorrect ==
    /\ \A c \in Range(tm.completed_contracts) :
          /\ c.status \in {"won", "lost"}
          /\ c.status = "won" <=>
                WinRule(c.direction, c.entry_price, Val(c.result_price))
          /\ Val(c.result_price) = c.entry_price => c.status = "lost"
          /\ Val(c.profit) = IF c.status = "won"
                             THEN (c.stake * c.payout_rate) \div 100
                             ELSE -c.stake
    /\ \A l \in Range(bs.log) :
          /\ l.won <=> WinRule(l.direction, l.entry_price, l.exit_price)
          /\ l.exit_price = l.entry_price => ~l.won
          /\ l.profit = IF l.won THEN (l.stake * l.payout_rate) \div 100
                        ELSE -l.stake
    /\ \A t \in Range(mr.completed_trades) :
          /\ t.result \in {"won", "lost"}
          /\ t.result = "won" <=>
                WinRule(t.direction, t.entry_price, Val(t.exit_price))
          /\ Val(t.exit_price) = t.entry_price => t.result = "lost"
          /\ t.profit = IF t.result = "won"
                        THEN (t.stake * MRPayoutPercent) \div 100
                        ELSE -t.stake

\* The mean-reversion strategy has settled a PUT on a tie, as lost, and a
\* CALL above its entry price, as won.
C1_Witness ==
    /\ comp = "mr"
    /\ \E t \in Range(mr.completed_trades) :
          t.direction = "PUT" /\ Val(t.exit_price) = t.entry_price /\ t.result = "lost"
    /\ \E t \in Range(mr.completed_trades) :
          t.direction = "CALL" /\ Val(t.exit_price) > t.entry_price /\ t.result = "won"

\* ---------------------------------------------------------------------
\* The status of contract id in each object ("absent" before it is created).
TMStatus(s, id) ==
    IF \E c \in Range(s.contracts) : c.id = id
    THEN (CHOOSE c \in Range(s.contracts) : c.id = id).status
    ELSE IF \E c \in Range(s.completed_contracts) : c.id = id
    THEN (CHOOSE c \in Range(s.completed_contracts) : c.id = id).status
    ELSE "absent"

BSStatus(s, id) ==
    IF \E c \in Range(s.binary_contracts) : c.id = id THEN "open"
    ELSE IF \E l \in Range(s.log) : l.id = id
    THEN (IF (CHOOSE l \in Range(s.log) : l.id = id).won THEN "won" ELSE "lost")
    ELSE "absent"

MRStatus(s, id) ==
    IF \E t \in Range(s.completed_trades) : t.id = id
    THEN (CHOOSE t \in Range(s.completed_trades) : t.id = id).result
    ELSE IF \E t \in Range(s.pending_trades) : t.id = id THEN "open"
    ELSE "absent"

StatusStepOk(before, after) ==
    before # after =>
        \/ before = "absent" /\ after = "open"
        \/ before = "open" /\ after \in {"won", "lost"}

C2_Step ==
    /\ \A id \in 0..MaxCandles :
          /\ StatusStepOk(TMStatus(tm, id), TMStatus(tm', id))
          /\ StatusStepOk(BSStatus(bs, id), BSStatus(bs', id))
          /\ StatusStepOk(MRStatus(mr, id), MRStatus(mr', id))
          /\ Count(tm'.completed_contracts, id) <= 1
          /\ Count(bs'.log, id) <= 1
          /\ Count(mr'.completed_trades, id) <= 1
          /\ Count(mr'.completed_trades, id) + Count(mr'.pending_trades, id) <= 1
    /\ IsPrefix(tm.completed_contracts, tm'.completed_contracts)
    /\ IsPrefix(bs.log, bs'.log)
    /\ IsPrefix(mr.completed_trades, mr'.completed_trades)
    /\ bs'.cash - bs.cash = SumPlainProfit(Drop(bs'.log, Len(bs.log)))
    /\ mr'.cash - mr.cash =
          SumPlainProfit(Drop(mr'.completed_trades, Len(mr.completed_trades)))
    /\ (/\ comp = "tm"
        /\ call'.op = "evaluate_contract"
        /\ TMStatus(tm, call'.contract_id) \in {"won", "lost"})
          => (ret' = "None" /\ tm' = tm)

\* C2  Settlement exactly once.  In every step, a contract's status changes
\* only from open to won or lost; no contract is twice in a completed list
\* (or in the settlement lines); cash moves by exactly the profit of the
\* contracts settled in that step; and evaluate_contract on an id that is
\* already settled returns None and leaves the manager as it was.
C2_ExactlyOnce == [][C2_Step]_vars

\* evaluate_contract has just been called on a settled contract.
C2_Witness ==
    /\ comp = "tm"
    /\ call.op = "evaluate_contract"
    /\ ret = "None"
    /\ TMStatus(tm, call.contract_id) \in {"won", "lost"}

\* ---------------------------------------------------------------------
\* C3  Ledger conservation.  In both strategies, cash - initial cash is the
\* sum of the profit of the settled contracts and is total_profit; open
\* contracts contribute nothing.
C3_LedgerConservation ==
    /\ mr.cash - InitialCash = SumPlainProfit(mr.completed_trades)
    /\ mr.cash - InitialCash = mr.total_profit
    /\ bs.cash - InitialCash = SumPlainProfit(bs.log)
    /\ bs.cash - InitialCash = bs.total_profit

\* A won contract is settled, its profit is in the cash, and another
\* contract has been opened since.
C3_Witness ==
    /\ comp = "mr"
    /\ mr.pending_trades # <<>>
    /\ \E t \in Range(mr.completed_trades) : t.result = "won"
    /\ mr.cash > InitialCash

\* ---------------------------------------------------------------------
\* C4  Concurrency bound.  The mean-reversion strategy never holds more
\* than max_concurrent_trades pending trades.
C4_ConcurrencyBound ==
    Len(mr.pending_trades) <= mr.params.max_concurrent_trades

\* Two trades are open at once under a limit of two.
C4_Witness ==
    /\ comp = "mr"
    /\ mr.params.max_concurrent_trades = 2
    /\ Len(mr.pending_trades) = 2

\* ---------------------------------------------------------------------
\* Every trade the strategies have opened, settled or not.
MRAllTrades == Range(mr.completed_trades) \cup Range(mr.pending_trades)
BSEntryTimes ==
    {<<c.id, c.entry_time>> : c \in Range(bs.binary_contracts)}
        \cup {<<l.id, l.entry_time>> : l \in Range(bs.log)}

\* C5  Cooldown bound.  In both strategies two consecutive entries are at
\* least the cooldown apart, measured from the earlier entry; and on a
\* candle that carries a signal an entry is made exactly when there is no
\* earlier entry or the cooldown has fully elapsed (>=), the concurrency
\* gate of the mean-reversion strategy permitting.  The candles tried are
\* those a run goes on to process, from the states short of MaxCandles.
C5_CooldownBound ==
    /\ \A a, b \in MRAllTrades :
          b.id = a.id + 1 =>
              b.entry_time - a.entry_time >= mr.params.cooldown_minutes
    /\ \A a, b \in BSEntryTimes :
          b[1] = a[1] + 1 =>
              (b[2] - a[2]) * SecondsPerMinute >= bs.cooldown_seconds
    /\ (comp = "mr" /\ candles < MaxCandles) =>
          \A dt \in Gaps, p \in Prices, sig \in MRSignals \ {None} :
             LET t == now + dt
                 elapsed == \/ IsNone(mr.last_trade_time)
                            \/ t - Val(mr.last_trade_time) >= mr.params.cooldown_minutes
                 entered == MRNextResult(mr, t, p, sig).trades_executed
                               = mr.trades_executed + 1
             IN entered <=>
                   (elapsed /\ Len(mr.pending_trades) < mr.params.max_concurrent_trades)
    /\ (comp = "bs" /\ ~bs.crashed /\ candles < MaxCandles) =>
          \A dt \in Gaps, p \in Prices, sig \in BSSignals \ {None} :
             LET t == now + dt
                 elapsed == \/ IsNone(bs.last_signal_time)
                            \/ (t - Val(bs.last_signal_time)) * SecondsPerMinute
                                  >= bs.cooldown_seconds
                 entered == BSNextResult(bs, t, p, sig).total_trades
                               = bs.total_trades + 1
             IN entered <=> elapsed

\* Two consecutive entries exactly one cooldown apart.
C5_Witness ==
    /\ comp = "mr"
    /\ mr.params.cooldown_minutes = 2
    /\ \E a, b \in MRAllTrades :
          b.id = a.id + 1 /\ b.entry_time - a.entry_time = mr.params.cooldown_minutes

\* ---------------------------------------------------------------------
\* C6  Per-candle ordering.  On any next candle with a signal, the
\* mean-reversion strategy opens a trade whenever the cooldown has elapsed
\* and fewer than max_concurrent_trades pending trades are still unexpired
\* at that candle: trades expiring on the candle are settled before the
\* gates and do not count as open.
C6_SettledBeforeGates ==
    comp = "mr" =>
        \A dt \in Gaps, p \in Prices, sig \in MRSignals \ {None} :
           LET t == now + dt
               elapsed == \/ IsNone(mr.last_trade_time)
                          \/ t - Val(mr.last_trade_time) >= mr.params.cooldown_minutes
               open_at_t == Cardinality({x \in Range(mr.pending_trades) :
                                            x.expiry_time > t})
           IN (elapsed /\ open_at_t < mr.params.max_concurrent_trades) =>
                 MRNextResult(mr, t, p, sig).trades_executed = mr.trades_executed + 1

\* ---------------------------------------------------------------------
\* C7  After next() has processed the candle at time now, no pending trade
\* of the mean-reversion strategy has expiry_time <= now.
C7_NoExpiredPending ==
    comp = "mr" => \A x \in Range(mr.pending_trades) : x.expiry_time > now

\* ---------------------------------------------------------------------
\* C8  Eventual settlement.  The mean-reversion strategy is never in a state
\* with a pending trade that no later candle settles: some candle at or
\* after now (one past every expiry and past the cooldown is among those
\* tried) makes next() settle a trade.
C8_NeverStuck ==
    (comp = "mr" /\ mr.pending_trades # <<>>) =>
        \E t \in now..(now + mr.params.expiry_minutes + mr.params.cooldown_minutes),
           p \in Prices, sig \in MRSignals :
           Len(MRNextResult(mr, t, p, sig).completed_trades)
               > Len(mr.completed_trades)

\* ---------------------------------------------------------------------
\* A step that settles a contract of the manager is at or after its expiry.
C9_Step ==
    \A c \in Range(tm.contracts) :
        (c.status = "open" /\ TMStatus(tm', c.id) \in {"won", "lost"})
            => now' >= c.expiration_time

\* C9  No early exit.  evaluate_contract takes a contract out of status
\* open only at or after its expiration_time.
C9_NoEarlyExit == [][C9_Step]_vars

\* ---------------------------------------------------------------------
\* The sizer state after a win, as the specification gives it.
WinUpdateOk(before, after, profit, stake) ==
    LET w == before.win_streak + 1 IN
    /\ after.loss_streak = 0
    /\ IF w >= before.params.max_win_streak
       THEN after.win_streak = 0 /\ after.current_stake = None
       ELSE after.win_streak = w /\ after.current_stake = Some(stake + profit)

C10_Step ==
    /\ (comp = "sizer" /\ call'.op = "_update_anti_martingale" /\ call'.won)
          => WinUpdateOk(mr, mr', call'.profit, call'.stake)
    /\ (comp = "v4" /\ call'.op = "notify_trade" /\ call'.isclosed /\ call'.pnl > 0)
          => WinUpdateOk(v4, v4', call'.pnl, Abs(call'.value))

\* C10  Sizer update on a win.  Every call of _update_anti_martingale with
\* won = True (and every notify_trade of V4 for a closed trade with
\* pnl > 0) sets loss_streak to 0 and, with w the old win_streak + 1:
\* if w >= max_win_streak, win_streak becomes 0 and current_stake unset;
\* otherwise win_streak becomes w and current_stake becomes stake + profit.
C10_WinUpdate == [][C10_Step]_vars

\* With max_win_streak = 2, a first win of 9.50 on a stake of 10.00 has left
\* current_stake at 19.50.
C10_Witness ==
    /\ comp = "sizer"
    /\ mr.params.max_win_streak = 2
    /\ call.op = "_update_anti_martingale"
    /\ call.won /\ call.stake = 100000 /\ call.profit = 95000
    /\ mr.win_streak = 1
    /\ mr.current_stake = Some(195000)

\* ---------------------------------------------------------------------
\* The sizer state after a loss, as the specification gives it.
LossUpdateOk(before, after, stake) ==
    LET l == before.loss_streak + 1 IN
    /\ after.win_streak = 0
    /\ IF l >= before.params.max_loss_streak
       THEN after.loss_streak = 0 /\ after.current_stake = None
       ELSE /\ after.loss_streak = l
            /\ ~IsNone(after.current_stake)
            /\ 2 * Val(after.current_stake) = stake

C11_Step ==
    /\ (comp = "sizer" /\ call'.op = "_update_anti_martingale" /\ ~call'.won)
          => LossUpdateOk(mr, mr', call'.stake)
    /\ (comp = "v4" /\ call'.op = "notify_trade" /\ call'.isclosed /\ ~(call'.pnl > 0))
          => LossUpdateOk(v4, v4', Abs(call'.value))

\* C11  Sizer update on a loss.  Every call of _update_anti_martingale with
\* won = False (and every notify_trade of V4 for a closed trade that is not
\* a win) sets win_streak to 0 and, with l the old loss_streak + 1: if
\* l >= max_loss_streak, loss_streak becomes 0 and current_stake unset;
\* otherwise loss_streak becomes l and current_stake becomes half the stake,
\* whatever the profit passed.
C11_LossUpdate == [][C11_Step]_vars

\* With max_loss_streak = 3, a second loss in a row, on a stake of 5.00,
\* has left current_stake at 2.50.
C11_Witness ==
    /\ comp = "sizer"
    /\ mr.params.max_loss_streak = 3
    /\ call.op = "_update_anti_martingale"
    /\ ~call.won /\ call.stake = 50000
    /\ mr.loss_streak = 2
    /\ mr.current_stake = Some(25000)

\* ---------------------------------------------------------------------
StreaksOk(s) ==
    /\ s.win_streak \in Nat
    /\ s.loss_streak \in Nat
    /\ s.win_streak = 0 \/ s.loss_streak = 0

\* C12  Streak mutual exclusion.  In every reachable state of both
\* mean-reversion strategies win_streak and loss_streak are non-negative
\* integers and at least one of them is zero.
C12_StreakExclusion == StreaksOk(mr) /\ StreaksOk(v4)

\* The strategy has settled a won trade and then a lost one: the loss
\* streak is 1 and the win streak is back to 0.
C12_Witness ==
    /\ comp = "mr"
    /\ Len(mr.completed_trades) = 2
    /\ mr.completed_trades[1].result = "won"
    /\ mr.completed_trades[2].result = "lost"
    /\ mr.loss_streak = 1
    /\ mr.win_streak = 0

\* ---------------------------------------------------------------------
BelowMax(s) ==
    (s.params.max_win_streak >= 1 /\ s.params.max_loss_streak >= 1) =>
        /\ s.win_streak < s.params.max_win_streak
        /\ s.loss_streak < s.params.max_loss_streak

\* C13  Progression cycles end.  With max_win_streak >= 1 and
\* max_loss_streak >= 1, win_streak stays below max_win_streak and
\* loss_streak below max_loss_streak in every state of both strategies.
C13_CyclesEnd == BelowMax(mr) /\ BelowMax(v4)

\* With max_win_streak = 2, a win has just ended a win cycle: the call was
\* a win and it left win_streak at 0 and current_stake unset.
C13_Witness ==
    /\ comp = "sizer"
    /\ mr.params.max_win_streak = 2
    /\ call.op = "_update_anti_martingale"
    /\ call.won
    /\ mr.win_streak = 0
    /\ mr.current_stake = None

\* ---------------------------------------------------------------------
\* C14  Clamping, as claimed.  The stake _calculate_stake returns, after the
\* final round to cents, is at least min_stake_pct * cash and at most
\* max_stake_pct * cash (both sides times 1000, in pips).
C14_Clamped ==
    /\ (comp = "sizer" /\ call.op = "_calculate_stake") =>
          /\ call.cash * MinStakePermille <= ret * 1000
          /\ ret * 1000 <= call.cash * MaxStakePermille
    /\ comp = "mr" =>
          \A strength \in {1, 2} :
             /\ mr.cash * MinStakePermille <= CalculateStake(mr, strength) * 1000
             /\ CalculateStake(mr, strength) * 1000 <= mr.cash * MaxStakePermille

\* C14  Clamping, to the cent.  The stake _calculate_stake returns is a whole
\* number of cents and lies within half a cent of the interval from
\* min_stake_pct * cash to max_stake_pct * cash: the clamp is applied before
\* the round, so the round can leave the interval by less than a cent.
C14_ClampedToCent ==
    /\ (comp = "sizer" /\ call.op = "_calculate_stake") =>
          /\ ret % PipsPerCent = 0
          /\ call.cash * MinStakePermille - 500 * PipsPerCent <= ret * 1000
          /\ ret * 1000 <= call.cash * MaxStakePermille + 500 * PipsPerCent
    /\ comp = "mr" =>
          \A strength \in {1, 2} :
             LET stake == CalculateStake(mr, strength) IN
             /\ stake % PipsPerCent = 0
             /\ mr.cash * MinStakePermille - 500 * PipsPerCent <= stake * 1000
             /\ stake * 1000 <= mr.cash * MaxStakePermille + 500 * PipsPerCent

\* After a loss on a stake of 1.00, current_stake is 0.50, below 0.1% of a
\* cash of 1000.16; _calculate_stake has returned 1.00.
C14_Witness ==
    /\ comp = "sizer"
    /\ call.op = "_calculate_stake"
    /\ call.cash = 10001600
    /\ mr.loss_streak = 1
    /\ mr.current_stake = Some(5000)
    /\ ret = 10000

\* ---------------------------------------------------------------------
Ascending(ids) == \A i, j \in 1..Len(ids) : i < j => ids[i] < ids[j]
Ids(s) == [i \in 1..Len(s) |-> s[i].id]

\* The sizer after the updates of the settled trades, one after the other.
RECURSIVE ApplySizer(_, _)
ApplySizer(s, settled) ==
    IF settled = <<>> THEN s
    ELSE ApplySizer(UpdateAntiMartingale(s, Head(settled).result = "won",
                                         Head(settled).profit, Head(settled).stake),
                    Tail(settled))

C15_Step ==
    LET mrSettled == Drop(mr'.completed_trades, Len(mr.completed_trades))
        bsSettled == Drop(bs'.log, Len(bs.log))
        sizer == ApplySizer(mr, mrSettled)
    IN /\ Ascending(Ids(mrSettled))
       /\ Ascending(Ids(bsSettled))
       /\ comp = "mr" =>
             /\ mr'.win_streak = sizer.win_streak
             /\ mr'.loss_streak = sizer.loss_streak
             /\ mr'.current_stake = sizer.current_stake

\* C15  Settlement order.  The contracts one call of next() settles are
\* settled in the order they were opened, in both strategies, and the sizer
\* the call leaves is the one obtained by applying their updates in that
\* order.
C15_SettlementOrder == [][C15_Step]_vars

\* Three candles: two trades opened, the second while the first was open,
\* and both settled by the third candle, the first won and the second lost.
C15_Witness ==
    /\ comp = "mr"
    /\ candles = 3
    /\ Len(mr.completed_trades) = 2
    /\ mr.completed_trades[2].entry_time < mr.completed_trades[1].expiry_time
    /\ mr.completed_trades[1].result = "won"
    /\ mr.completed_trades[2].result = "lost"
    /\ mr.loss_streak = 1

\* ---------------------------------------------------------------------
InvalidStrategyParams(params) ==
    \/ params.expiry_minutes <= 0
    \/ params.cooldown_minutes <= 0
    \/ params.max_win_streak <= 0
    \/ params.max_loss_streak <= 0

\* C16  Invalid configuration is rejected.  Under a manager with a negative
\* payout_rate, and under a strategy with a non-positive duration or streak
\* limit, no contract is ever opened or settled.
C16_InvalidConfigRejected ==
    /\ tm.payout_rate < 0 =>
          /\ tm.contract_counter = 0
          /\ tm.completed_contracts = <<>>
    /\ InvalidStrategyParams(mr.params) =>
          /\ mr.trades_executed = 0
          /\ mr.completed_trades = <<>>

\* ---------------------------------------------------------------------
Recognized(direction) == direction \in {"CALL", "PUT"}

\* C17  Unrecognized directions are rejected.  No contract of the manager
\* or of a strategy, open or settled, has a direction other than CALL or
\* PUT, and no call on the manager ends in a ValueError.
C17_UnrecognizedRejected ==
    /\ \A c \in Range(tm.contracts) \cup Range(tm.completed_contracts) :
          Recognized(c.direction)
    /\ \A c \in Range(bs.binary_contracts) \cup Range(bs.log) :
          Recognized(c.direction)
    /\ \A c \in MRAllTrades : Recognized(c.direction)
    /\ ~bs.crashed
    /\ comp = "tm" => ret # "ValueError"

\* ---------------------------------------------------------------------
C18_Step ==
    comp = "martingale" =>
        /\ candles = 0 => ms.current_multiplier = 1
        /\ IF call'.op = "notify_trade" /\ call'.isclosed
           THEN IF call'.pnl > 0
                THEN ms.params.reset_on_win => ms'.current_multiplier = 1
                ELSE LET next == ms.current_multiplier * ms.params.multiplier IN
                     next <= Pow(ms.params.multiplier, ms.params.max_multiplier)
                        => ms'.current_multiplier = next
           ELSE ms'.current_multiplier = ms.current_multiplier

\* C18  MartingaleSizer progression.  current_multiplier starts at 1; a
\* closed trade that is not a win multiplies it by the multiplier parameter
\* while the product does not exceed the cap; a closed win sets it to 1 when
\* reset_on_win is set; and nothing else (a trade still open, _getsizing)
\* changes it.
C18_MartingaleProgression == [][C18_Step]_vars

\* Two losses in a row with multiplier 2 have taken the multiplier to 4.
C18_Witness ==
    /\ comp = "martingale"
    /\ ms.params.multiplier = 2
    /\ ms.params.max_multiplier = 3
    /\ call.op = "notify_trade"
    /\ call.isclosed /\ call.pnl < 0
    /\ ms.consecutive_losses = 2
    /\ ms.current_multiplier = 4

\* ---------------------------------------------------------------------
CapOf(s) == Pow(s.params.multiplier, s.params.max_multiplier)

\* C19  max_multiplier caps the progression.  For both sizers
\* current_multiplier never exceeds multiplier ** max_multiplier, and at
\* the cap a further loss (MartingaleSizer) or a further win
\* (AntiMartingaleSizer) leaves it at the cap.
C19_Capped ==
    /\ ms.current_multiplier <= CapOf(ms)
    /\ am.current_multiplier <= CapOf(am)
    /\ ms.current_multiplier = CapOf(ms) =>
          \A pnl \in {x \in TradePnls : ~(x > 0)} :
             MartingaleNotifyTradeResult(ms, TRUE, pnl).current_multiplier = CapOf(ms)
    /\ am.current_multiplier = CapOf(am) =>
          \A pnl \in {x \in TradePnls : x > 0} :
             AntiMartingaleNotifyTradeResult(am, TRUE, pnl).current_multiplier = CapOf(am)

\* With multiplier 2 and max_multiplier 3, a fourth loss in a row has left
\* the multiplier at 8.
C19_Witness ==
    /\ comp = "martingale"
    /\ ms.params.multiplier = 2
    /\ ms.params.max_multiplier = 3
    /\ ms.consecutive_losses = 4
    /\ ms.current_multiplier = 8

\* ---------------------------------------------------------------------
C20_Step ==
    comp = "antimartingale" =>
        /\ candles = 0 => am.current_multiplier = 1
        /\ (call'.op = "notify_trade" /\ call'.isclosed) =>
              IF call'.pnl > 0
              THEN am'.current_multiplier =
                      Min2(am.current_multiplier * am.params.multiplier, CapOf(am))
              ELSE am.params.reset_on_loss =>
                      /\ am'.current_multiplier = 1
                      /\ AntiMartingaleCalculateNextStake(am') = am.params.stake

\* C20  AntiMartingaleSizer progression.  current_multiplier starts at 1; a
\* closed win multiplies it by the multiplier parameter, up to the cap; a
\* closed trade that is not a win sets it to 1 when reset_on_loss is set, so
\* that the next stake is the base stake.
C20_AntiMartingaleProgression == [][C20_Step]_vars

\* Two wins have taken the multiplier to 4 and the loss that followed has
\* just put it back to 1.
C20_Witness ==
    /\ comp = "antimartingale"
    /\ am.params.multiplier = 2
    /\ am.params.reset_on_loss
    /\ candles = 3
    /\ call.op = "notify_trade"
    /\ call.isclosed /\ call.pnl < 0
    /\ am.consecutive_losses = 1
    /\ am.current_multiplier = 1
    /\ AntiMartingaleCalculateNextStake(am) = 100000

\* ---------------------------------------------------------------------
\* C21: FixedSizer never changes.  Whatever closed or open, winning,
\* break-even or losing trades were notified, the sizer still holds the
\* stake it was constructed with, and every call of _calculate_next_stake
\* returns exactly that stake parameter.
C21_FixedNeverChanges ==
    comp = "fixed" =>
        /\ fx.params.stake \in FixedStakes
        /\ fx.current_stake = fx.params.stake
        /\ call.op = "_calculate_next_stake" => ret = fx.params.stake

\* A quarter-unit sizer is asked for its stake after at least two
\* notifications, the last one a closed losing trade following a trade
\* that was not a loss.
C21_Witness ==
    /\ comp = "fixed"
    /\ call.op = "_calculate_next_stake"
    /\ candles >= 2
    /\ fx.consecutive_losses = 1
    /\ fx.last_trade_pnl < 0
    /\ ret = 250000

\* ---------------------------------------------------------------------
\* C22: concurrency bound of the reversal hunter.  For every configuration
\* of expiration_time, cooldown_seconds and max_concurrent_trades, the
\* contracts open in binary_contracts never number more than
\* max_concurrent_trades, and the limiter's counter active_trades is never
\* below the number of contracts that are still open.
C22_RHConcurrencyBound ==
    comp = "rh" =>
        /\ Len(rh.binary_contracts) <= rh.params.max_concurrent_trades
        /\ rh.active_trades >= Len(rh.binary_contracts)

\* ---------------------------------------------------------------------
\* C23: streak reset of the reversal hunter.  A streak that reaches its
\* maximum is reset: after every settlement win_streak is below
\* max_win_streak_bonus and loss_streak is below max_consecutive_losses.
C23_RHStreakReset ==
    comp = "rh" =>
        /\ rh.win_streak < rh.params.max_win_streak_bonus
        /\ rh.loss_streak < rh.params.max_consecutive_losses

\* ---------------------------------------------------------------------
\* C24: profit bookkeeping of the reversal hunter.  For every payout_rate,
\* accumulated_profit and the sum of the per-trade profits reported in
\* detailed_trades equal the net change of the broker's cash since the
\* start, and every completed trade's won/lost result is the outcome with
\* which its contract updated the cash.
RECURSIVE RHSumDetailedProfit(_)
RHSumDetailedProfit(trades) ==
    IF trades = <<>> THEN 0
    ELSE RHTradeProfit(Head(trades)) + RHSumDetailedProfit(Tail(trades))

C24_RHProfitMatchesCash ==
    comp = "rh" =>
        /\ rh.accumulated_profit = rh.cash - InitialCash
        /\ RHSumDetailedProfit(rh.completed_trades) = rh.cash - InitialCash
        /\ \A i \in 1..Len(rh.completed_trades) :
              \E j \in 1..Len(rh.log) :
                 /\ rh.log[j].id = rh.completed_trades[i].trade_number - 1
                 /\ rh.log[j].won = (rh.completed_trades[i].result = Some("won"))

\* ---------------------------------------------------------------------
\* C25: the sizer is mutated only by settlement.  Over one call of next() of
\* the mean-reversion strategy, win_streak, loss_streak and current_stake
\* end as the result of one _update_anti_martingale per trade the call
\* settled, applied to the values before the call: a call that settles
\* nothing leaves them as they were, whether or not it opens a trade, and
\* the wins and losses counted grow by exactly the number settled.
C25_Step ==
    comp = "mr" =>
        LET settled == Drop(mr'.completed_trades, Len(mr.completed_trades))
            sizer == ApplySizer(mr, settled)
        IN /\ mr'.win_streak = sizer.win_streak
           /\ mr'.loss_streak = sizer.loss_streak
           /\ mr'.current_stake = sizer.current_stake
           /\ mr'.wins + mr'.losses = mr.wins + mr.losses + Len(settled)
           /\ settled = <<>> =>
                 /\ mr'.win_streak = mr.win_streak
                 /\ mr'.loss_streak = mr.loss_streak
                 /\ mr'.current_stake = mr.current_stake

C25_SizerFrame == [][C25_Step]_vars

\* A trade was opened while the sizer was in a cycle: a settled trade has
\* left a streak and a current_stake, a later trade is pending, and the
\* sizer still holds the stake the settlement left.
C25_Witness ==
    /\ comp = "mr"
    /\ call.op = "next"
    /\ Len(mr.completed_trades) = 1
    /\ Len(mr.pending_trades) >= 1
    /\ mr.win_streak = 1
    /\ mr.current_stake = Some(mr.completed_trades[1].stake + mr.completed_trades[1].profit)

\* ---------------------------------------------------------------------
\* C26: the stake before clamping.  For a signal of strength 1 or 2,
\* _calculate_stake starts from cash * base_stake_pct, with the cash at the
\* time of the call, when current_stake is unset, and from current_stake as
\* the last settlement left it otherwise, and multiplies that value by
\* 1 + max(0, strength - 1) * 0.1; the stake it returns is that product
\* clamped to the limits and rounded to cents.
C26_Expected(s, strength) ==
    LET bonus == Max2(0, strength - 1)                \* in tenths
        start == IF IsNone(s.current_stake)
                 THEN (s.cash * BaseStakePermille) \div 10
                 ELSE Val(s.current_stake) * 100      \* over 100 pips
    IN start * (10 + bonus)                           \* over 1000 pips

C26_StakeBeforeClamp ==
    /\ comp \in {"mr", "sizer"} =>
          \A strength \in {1, 2}, cash \in SizerCash :
             LET s == [mr EXCEPT !.cash = cash]
             IN StakeBeforeClamp(s, strength) = C26_Expected(s, strength)
    /\ (comp = "sizer" /\ call.op = "_calculate_stake") =>
          LET s == [mr EXCEPT !.cash = call.cash]
              stake == C26_Expected(s, call.strength)
          IN ret = RoundToCents(Max2(s.cash * MinStakePermille,
                                     Min2(stake, s.cash * MaxStakePermille)),
                                1000)

\* A strength-2 signal after one win: current_stake 19.50 is carried over
\* and the stake returned is 19.50 * 1.1 = 21.45, inside the limits.
C26_Witness ==
    /\ comp = "sizer"
    /\ call.op = "_calculate_stake"
    /\ call.strength = 2
    /\ mr.current_stake = Some(195000)
    /\ ret = 214500

\* ---------------------------------------------------------------------
\* C27: the limits of _getsizing.  For every cash >= 0 and every state of a
\* FixedSizer, MartingaleSizer or AntiMartingaleSizer, the stake returned
\* never exceeds the cash, never exceeds max_stake when a max_stake is in
\* force, and is at least min_stake whenever min_stake <= cash and
\* min_stake <= max_stake.  A limit is in force when _getsizing's own test
\* of the parameter passes (a value other than None and 0).
SizingWithinLimits(params, cash, stake) ==
    /\ stake <= cash
    /\ Truthy(params.max_stake) => stake <= Val(params.max_stake)
    /\ ( /\ Truthy(params.min_stake)
         /\ Val(params.min_stake) <= cash
         /\ Truthy(params.max_stake) => Val(params.min_stake) <= Val(params.max_stake) )
       => stake >= Val(params.min_stake)

C28_UnsetIffNoStreak ==
    comp \in {"mr", "sizer"} =>
        /\ IsNone(mr.current_stake) <=> (mr.win_streak = 0 /\ mr.loss_streak = 0)
        /\ \A strength \in {1, 2} :
              StakeBeforeClamp(mr, strength) =
                 IF mr.win_streak = 0 /\ mr.loss_streak = 0
                 THEN (mr.cash * BaseStakePermille * (9 + strength)) \div 10
                 ELSE Val(mr.current_stake) * 100 * (9 + strength)

\* The strategy has ended a cycle in a backtest: trades were settled, the
\* last one reset the streaks, and current_stake is unset again.
C28_Witness ==
    /\ comp = "mr"
    /\ Len(mr.completed_trades) >= 2
    /\ mr.win_streak = 0
    /\ mr.loss_streak = 0
    /\ IsNone(mr.current_stake)
    /\ mr.completed_trades[1].result = "won"
    /\ mr.completed_trades[2].result = "won"

\* ---------------------------------------------------------------------
\* C29: evaluate_contract on an open contract whose direction is neither
\* 'CALL' nor 'PUT' raises ValueError and leaves the manager as it was: the
\* contract stays in contracts with status 'open' and result_price and
\* profit unset, and completed_contracts, get_total_profit() and
\* contract_counter are unchanged.  Stated for every such call the manager
\* can receive next, and for the state the call that raised has left.
C29_ErrorLeavesManager ==
    comp = "tm" =>
        /\ \A id \in 0..MaxContracts, p \in Prices :
              ( /\ TMHas(tm, id)
                /\ TMGet(tm, id).status = "open"
                /\ TMGet(tm, id).direction \notin {"CALL", "PUT"} ) =>
                 LET r == EvaluateContract(tm, id, p) IN
                 /\ r.ret = "ValueError"
                 /\ r.state.contracts = tm.contracts
                 /\ TMHas(r.state, id)
                 /\ TMGet(r.state, id).status = "open"
                 /\ IsNone(TMGet(r.state, id).result_price)
                 /\ IsNone(TMGet(r.state, id).profit)
                 /\ r.state.completed_contracts = tm.completed_contracts
                 /\ GetTotalProfit(r.state) = GetTotalProfit(tm)
                 /\ r.state.contract_counter = tm.contract_counter
        /\ (call.op = "evaluate_contract" /\ ret = "ValueError") =>
              /\ TMHas(tm, call.contract_id)
              /\ TMGet(tm, call.contract_id).status = "open"
              /\ IsNone(TMGet(tm, call.contract_id).result_price)
              /\ IsNone(TMGet(tm, call.contract_id).profit)
              /\ \A i \in 1..Len(tm.completed_contracts) :
                    tm.completed_contracts[i].id # call.contract_id

\* Two contracts were created, one of them with an unrecognised direction,
\* and the call evaluating that one has raised: both are still in
\* contracts and the unrecognised one is still open.
C29_Witness ==
    /\ comp = "tm"
    /\ call.op = "evaluate_contract"
    /\ ret = "ValueError"
    /\ Len(tm.contracts) = 2
    /\ TMHas(tm, call.contract_id)
    /\ TMGet(tm, call.contract_id).direction = "OTHER"
    /\ TMGet(tm, call.contract_id).status = "open"

\* ---------------------------------------------------------------------
\* C30: the accounting of BaseBinaryStrategy.  After every completed call
\* of next(), in the base strategy and in the reversal hunter that inherits
\* it, won_trades + lost_trades + len(binary_contracts) = total_trades =
\* contract_counter, won_trades and lost_trades count the contracts settled
\* as won and as lost, and total_profit is the sum of stake * payout_rate
\* over the won contracts minus the sum of stake over the lost ones.
RECURSIVE PayoutBalance(_)
PayoutBalance(settled) ==
    IF settled = <<>> THEN 0
    ELSE (IF Head(settled).won
          THEN (Head(settled).stake * Head(settled).payout_rate) \div 100
          ELSE -Head(settled).stake)
         + PayoutBalance(Tail(settled))

BaseAccountingOk(s) ==
    LET Won(line) == line.won
        Lost(line) == ~line.won
    IN /\ s.won_trades + s.lost_trades + Len(s.binary_contracts) = s.total_trades
       /\ s.total_trades = s.contract_counter
       /\ s.won_trades = Len(SelectSeq(s.log, Won))
       /\ s.lost_trades = Len(SelectSeq(s.log, Lost))
       /\ s.total_profit = PayoutBalance(s.log)

C30_BaseAccounting ==
    /\ (comp = "bs" /\ ~bs.crashed) => BaseAccountingOk(bs)
    /\ comp = "rh" => BaseAccountingOk(rh)

\* Three candles of the base strategy: a contract settled as won, one
\* settled as lost, and a third still open.
C30_Witness ==
    /\ comp = "bs"
    /\ call.op = "next"
    /\ bs.won_trades = 1
    /\ bs.lost_trades = 1
    /\ Len(bs.binary_contracts) = 1
    /\ bs.total_profit = -20000
====
